---- MODULE Spec2Model ----
(***************************************************************************)
(* Model of the branch-processing scripts of mcpmux/mcp-servers:           *)
(*   fix_branches.py  (rebase, Fix Engine, commit, push to fix/<name>)     *)
(*   rename_files.py  (transport-suffix canonicalization)                  *)
(*   fix_ids.py       (identifier-domain canonicalization)                 *)
(*                                                                         *)
(* Strings the code takes apart (ids, file names, display names, branch    *)
(* names, diagnostics) are sequences of tokens; a JSON object is a         *)
(* function whose domain is the set of keys that are present.              *)
(***************************************************************************)
EXTENDS Naturals, Sequences, FiniteSets, TLC

(***************************************************************************)
(* Bounds of the model.                                                    *)
(***************************************************************************)
MaxInputs == 2
NumPasses == 2
\* Record files the contributed branches add, over all branches of a run.
MaxAdded == 2
\* How many times in a row a script is run.
NumRuns == 2
\* Record files the contributed branches add when fix_branches.py is
\* killed and run again.
MaxAddedRerun == 1

(***************************************************************************)
(* Python values.                                                          *)
(***************************************************************************)
\* Python's None, as returned by dict.get(k) for a missing key.
NONE == "<None>"

\* The empty dict {}.
EmptyDict == [k \in {} |-> NONE]

\* d.get(k, def)
Get(d, k, def) == IF k \in DOMAIN d THEN d[k] ELSE def

\* d[k] = v
Put(d, k, v) == [y \in DOMAIN d \cup {k} |-> IF y = k THEN v ELSE d[y]]

(***************************************************************************)
(* fix_branches.py: the maintained fix tables.                             *)
(***************************************************************************)
MCP_ORG_ICON == "https://avatars.githubusercontent.com/u/182288589?v=4"

ICON_FIXES ==
    ( <<"community.filesystem">> :> MCP_ORG_ICON ) @@
    ( <<"community.puppeteer">> :> MCP_ORG_ICON ) @@
    ( <<"community.sqlite">> :> MCP_ORG_ICON ) @@
    ( <<"community.fetch">> :> MCP_ORG_ICON ) @@
    ( <<"community.memory">> :> MCP_ORG_ICON ) @@
    ( <<"community.sequential-thinking">> :> MCP_ORG_ICON ) @@
    ( <<"community.postgresql">> :> "https://www.postgresql.org/media/img/about/press/elephant.png" ) @@
    ( <<"community.gitlab">> :> "https://avatars.githubusercontent.com/u/1086321?v=4" ) @@
    ( <<"community.google-maps">> :> "https://avatars.githubusercontent.com/u/1342004?v=4" )

REPO_FIXES ==
    ( <<"com.hubspot-mcp">> :> "https://github.com/HubSpot/mcp-server" ) @@
    ( <<"com.resend-mcp">> :> "https://github.com/resend/resend-mcp" ) @@
    ( <<"com.pagerduty-mcp">> :> "https://github.com/PagerDuty/pagerduty-mcp-server" )

DOC_FIXES ==
    ( <<"community.postgresql">> :>
        "https://github.com/modelcontextprotocol/servers/tree/main/src/postgres#readme" )

PACKAGE_FIXES ==
    ( <<"com.pagerduty-mcp">> :> [args |-> <<"pagerduty-mcp">>] )

STYTCH_ID == <<"com.stytch-mcp">>

STYTCH_REPO == "https://github.com/stytchauth/stytch-mcp"

VALID_INPUT_TYPES ==
    {"text", "number", "boolean", "url", "select", "file_path", "directory_path"}

(***************************************************************************)
(* fix_branches.py: fix_definition.                                        *)
(***************************************************************************)
\* The loop over inputs (lines 70-74).  An input whose type is outside the
\* enumeration is set to 'text' and a fix naming inp['id'] is appended;
\* inp['id'] raises KeyError when the input has no id, which ends the
\* function before anything is written.
RECURSIVE FixInputs(_, _, _)
FixInputs(inputs, i, acc) ==
    IF acc.raised \/ i > Len(inputs) THEN acc
    ELSE LET inp == inputs[i]
             old_type == Get(inp, "type", NONE)
         IN  IF old_type \notin VALID_INPUT_TYPES
             THEN LET fixed == Put(inp, "type", "text")
                  IN  IF "id" \in DOMAIN inp
                      THEN FixInputs(inputs, i + 1,
                             [raised |-> FALSE,
                              inputs |-> Append(acc.inputs, fixed),
                              fixes  |-> Append(acc.fixes,
                                           <<"input type", old_type, inp["id"]>>)])
                      ELSE [raised |-> TRUE,
                            inputs |-> Append(acc.inputs, fixed),
                            fixes  |-> acc.fixes]
             ELSE FixInputs(inputs, i + 1,
                    [raised |-> FALSE,
                     inputs |-> Append(acc.inputs, inp),
                     fixes  |-> acc.fixes])

\* data with transport.metadata.inputs replaced; inputs is the list object
\* reached through data, so the loop's mutation is visible in data exactly
\* when the list is non-empty (an absent key yields a fresh empty list).
WithInputs(data, inputs) ==
    IF inputs = <<>> THEN data
    ELSE Put(data, "transport",
             Put(data["transport"], "metadata",
                 Put(data["transport"]["metadata"], "inputs", inputs)))

\* A table rule on links[key] (lines 85-98): diff-gated.
FixLink(st, server_id, table, key, what) ==
    IF server_id \in DOMAIN table
    THEN LET links == Get(st.data, "links", EmptyDict)
         IN  IF Get(links, key, NONE) # table[server_id]
             THEN [data  |-> Put(st.data, "links", Put(links, key, table[server_id])),
                   fixes |-> Append(st.fixes, <<what>>)]
             ELSE st
    ELSE st

\* Lines 77-82.
FixIcon(st, server_id) ==
    IF server_id \in DOMAIN ICON_FIXES
    THEN IF Get(st.data, "icon", "") # ICON_FIXES[server_id]
         THEN [data  |-> Put(st.data, "icon", ICON_FIXES[server_id]),
               fixes |-> Append(st.fixes, <<"icon updated">>)]
         ELSE st
    ELSE st

\* Lines 101-105: not diff-gated.
FixStytch(st, server_id) ==
    IF server_id = STYTCH_ID
    THEN [data  |-> Put(st.data, "links",
                        Put(Get(st.data, "links", EmptyDict), "repository", STYTCH_REPO)),
          fixes |-> Append(st.fixes, <<"repo URL: org page -> specific repo">>)]
    ELSE st

\* Lines 108-110: not diff-gated.  transport is data['transport'] when the
\* key is present and a detached {} otherwise, so the assignment reaches
\* data only in the first case.
FixPackage(st, server_id) ==
    IF server_id \in DOMAIN PACKAGE_FIXES
    THEN [data  |-> IF "transport" \in DOMAIN st.data
                    THEN Put(st.data, "transport",
                             Put(st.data["transport"], "args",
                                 PACKAGE_FIXES[server_id].args))
                    ELSE st.data,
          fixes |-> Append(st.fixes, <<"fixed package name">>)]
    ELSE st

\* fix_definition(filepath, server_id) on a file whose parsed content is
\* data.  raised: an exception left the function; written: the file was
\* rewritten, with content data; fixes: the returned list.
fix_definition(data, server_id) ==
    LET transport == Get(data, "transport", EmptyDict)
        metadata  == Get(transport, "metadata", EmptyDict)
        inputs    == Get(metadata, "inputs", <<>>)
        loop      == FixInputs(inputs, 1,
                        [raised |-> FALSE, inputs |-> <<>>, fixes |-> <<>>])
        s1 == [data |-> WithInputs(data, loop.inputs), fixes |-> loop.fixes]
        s2 == FixIcon(s1, server_id)
        s3 == FixLink(s2, server_id, REPO_FIXES, "repository", "repo URL fixed")
        s4 == FixLink(s3, server_id, DOC_FIXES, "documentation", "doc URL fixed")
        s5 == FixStytch(s4, server_id)
        s6 == FixPackage(s5, server_id)
    IN  IF loop.raised
        THEN [raised |-> TRUE, written |-> FALSE, data |-> data, fixes |-> <<>>]
        ELSE [raised  |-> FALSE,
              written |-> s6.fixes # <<>>,
              data    |-> IF s6.fixes # <<>> THEN s6.data ELSE data,
              fixes   |-> s6.fixes]

(***************************************************************************)
(* Token strings and their order.                                          *)
(***************************************************************************)
\* Every token of a path or branch name, in the order git lists names.
TokenOrder ==
    << "claude/add-", "fix/", "main", "servers/",
       "airtable", "jira", "pagerduty", "snyk",
       "README", "com.example", "com.example-mcp", "com.node-tool",
       "com.pagerduty-mcp", "com.remote-mcp", "com.snyk-mcp", "com.stytch-mcp",
       "community.airtable", "community.postgresql",
       "crystaldba.postgres-mcp", "domdomegg.airtable-mcp",
       "-cli", "-docker", "-http", "-mcp", "-nYwV7", "-node", "-npx", "-uvx",
       ".json", ".md" >>

Rank(t) == CHOOSE i \in 1..Len(TokenOrder) : TokenOrder[i] = t

RECURSIVE SeqLess(_, _)
SeqLess(a, b) ==
    IF a = <<>> THEN b # <<>>
    ELSE IF b = <<>> THEN FALSE
    ELSE IF Head(a) = Head(b) THEN SeqLess(Tail(a), Tail(b))
    ELSE Rank(Head(a)) < Rank(Head(b))

\* sorted(S): the names of S in ascending order.
RECURSIVE Sorted(_)
Sorted(S) ==
    IF S = {} THEN <<>>
    ELSE LET m == CHOOSE x \in S : \A y \in S \ {x} : SeqLess(x, y)
         IN  <<m>> \o Sorted(S \ {m})

Range(s) == { s[i] : i \in 1..Len(s) }

\* s.endswith(t) for a token t
EndsWith(s, t) == s # <<>> /\ s[Len(s)] = t

(***************************************************************************)
(* The version-control backend, as the scripts use it.  A repository is    *)
(*   head      the checked-out branch (the branch being rebased while a    *)
(*             rebase is stopped),                                         *)
(*   rebasing  a rebase is stopped on conflicts,                           *)
(*   tree      local branch -> committed tree (path -> file),              *)
(*   idx, wt   the index and the working tree,                             *)
(*   remote    pushed branch -> tree.                                      *)
(* Every command takes the exit status the environment allows it (ok) and  *)
(* fails, changing nothing, when git itself must refuse.                   *)
(***************************************************************************)
MAIN == <<"main">>

ABSENT == [absent |-> TRUE]

At(t, p) == IF p \in DOMAIN t THEN t[p] ELSE ABSENT

Without(f, k) == [x \in DOMAIN f \ {k} |-> f[x]]

HeadTree(g) == g.tree[g.head]

\* Paths whose index or working-tree entry differs from HEAD.
Changed(g) ==
    { p \in DOMAIN g.wt \cup DOMAIN g.idx \cup DOMAIN HeadTree(g) :
        At(g.wt, p) # At(HeadTree(g), p) \/ At(g.idx, p) # At(HeadTree(g), p) }

\* git switches to a tree only if every locally changed path is the same
\* in HEAD and in the target; the local changes are carried over.
CanSwitch(g, target) ==
    /\ ~g.rebasing
    /\ \A p \in Changed(g) : At(HeadTree(g), p) = At(target, p)

Carry(target, local, P) ==
    LET dom == { p \in DOMAIN target \cup DOMAIN local :
                   IF p \in P THEN p \in DOMAIN local ELSE p \in DOMAIN target }
    IN  [p \in dom |-> IF p \in P THEN local[p] ELSE target[p]]

Switch(g, b, target) ==
    [g EXCEPT !.head = b,
              !.wt   = Carry(target, g.wt, Changed(g)),
              !.idx  = Carry(target, g.idx, Changed(g))]

Failed(g) == [rc |-> 1, g |-> g]

Done(g) == [rc |-> 0, g |-> g]

\* git branch -D <b>
git_branch_D(g, b, ok) ==
    IF ok /\ b \in DOMAIN g.tree /\ b # g.head
    THEN Done([g EXCEPT !.tree = Without(g.tree, b)])
    ELSE Failed(g)

\* git checkout -b <b> origin/<src>, start being the tree of origin/<src>
git_checkout_b(g, b, start, ok) ==
    IF ok /\ b \notin DOMAIN g.tree /\ CanSwitch(g, start)
    THEN Done(Switch([g EXCEPT !.tree = Put(g.tree, b, start)], b, start))
    ELSE Failed(g)

\* git checkout <b>
git_checkout(g, b, ok) ==
    IF ok /\ b \in DOMAIN g.tree /\ CanSwitch(g, g.tree[b])
    THEN Done(Switch(g, b, g.tree[b]))
    ELSE Failed(g)

\* git rebase main: replays the branch (outcome "ok"), stops on a conflict
\* (outcome "conflict": the rebase stays in progress) or does not start.
\* The trees of origin are given as they are once replayed onto main.
git_rebase_main(g, outcome) ==
    IF g.rebasing \/ Changed(g) # {} \/ outcome = "refused" THEN Failed(g)
    ELSE IF outcome = "conflict" THEN Failed([g EXCEPT !.rebasing = TRUE])
    ELSE Done(g)

\* git rebase --abort
git_rebase_abort(g, ok) ==
    IF ok /\ g.rebasing
    THEN Done([g EXCEPT !.rebasing = FALSE, !.wt = HeadTree(g), !.idx = HeadTree(g)])
    ELSE Failed(g)

\* git diff main --name-only -- servers/
git_diff_main(g, ok) ==
    IF ok
    THEN [rc |-> 0, g |-> g,
          out |-> Sorted({ p \in DOMAIN g.wt \cup DOMAIN g.tree[MAIN] :
                             At(g.wt, p) # At(g.tree[MAIN], p) })]
    ELSE [rc |-> 1, g |-> g, out |-> <<>>]

\* git add -A
git_add_A(g, ok) ==
    IF ok /\ ~g.rebasing THEN Done([g EXCEPT !.idx = g.wt]) ELSE Failed(g)

\* git commit: fails when nothing is staged
git_commit(g, ok) ==
    IF ok /\ ~g.rebasing /\ g.idx # HeadTree(g)
    THEN Done([g EXCEPT !.tree = Put(g.tree, g.head, g.idx)])
    ELSE Failed(g)

\* git push origin <b>
git_push(g, b, ok) ==
    IF ok /\ b \in DOMAIN g.tree
    THEN Done([g EXCEPT !.remote = Put(g.remote, b, g.tree[b])])
    ELSE Failed(g)

\* git mv -f <f> <new>: as git mv, but an existing <new> is overwritten
git_mv_force(g, f, new, ok) ==
    IF ok /\ ~g.rebasing /\ f \in DOMAIN g.wt /\ f \in DOMAIN g.idx
    THEN Done([g EXCEPT !.wt  = Put(Without(g.wt, f), new, g.wt[f]),
                        !.idx = Put(Without(g.idx, f), new, g.idx[f])])
    ELSE Failed(g)

\* git mv <f> <new>: moves the working file and the index entry
git_mv(g, f, new, ok) ==
    IF ok /\ ~g.rebasing /\ f \in DOMAIN g.wt /\ f \in DOMAIN g.idx
          /\ new \notin DOMAIN g.wt /\ new \notin DOMAIN g.idx
    THEN Done([g EXCEPT !.wt  = Put(Without(g.wt, f), new, g.wt[f]),
                        !.idx = Put(Without(g.idx, f), new, g.idx[f])])
    ELSE Failed(g)

\* git ls-tree -r --name-only <b> -- servers/
git_ls_tree(g, b, ok) ==
    IF ok /\ b \in DOMAIN g.tree
    THEN [rc |-> 0, g |-> g, out |-> Sorted(DOMAIN g.tree[b])]
    ELSE [rc |-> 1, g |-> g, out |-> <<>>]

(***************************************************************************)
(* Diagnostics: the text a command writes to stderr, as characters.        *)
(***************************************************************************)
UpperToLower == ( "E" :> "e" ) @@ ( "R" :> "r" ) @@ ( "O" :> "o" )

\* str.lower()
Lower(s) ==
    [i \in 1..Len(s) |-> IF s[i] \in DOMAIN UpperToLower THEN UpperToLower[s[i]] ELSE s[i]]

\* sub in s
Contains(s, sub) ==
    \E i \in 0..(Len(s) - Len(sub)) : SubSeq(s, i + 1, i + Len(sub)) = sub

ERROR_WORD == <<"e", "r", "r", "o", "r">>

\* What git may write to stderr when a push fails.
PushDiagnostics ==
    { <<"e", "r", "r", "o", "r", ":", " ", "r", "e", "f", "s">>,
      <<"E", "R", "R", "O", "R", ":", " ", "a", "u", "t", "h">>,
      <<"f", "a", "t", "a", "l", ":", " ", "r", "e", "a", "d">>,
      <<"!", " ", "[", "r", "e", "j", "e", "c", "t", "e", "d", "]">> }

STDERR == <<"f", "a", "t", "a", "l">>

\* run(cmd, check): (None, stderr) when check and the command failed,
\* (stdout, stderr) otherwise.
run(rc, stdout, stderr, check) ==
    IF check /\ rc # 0
    THEN [none |-> TRUE, out |-> <<>>, err |-> stderr]
    ELSE [none |-> FALSE, out |-> stdout, err |-> stderr]

(***************************************************************************)
(* State.                                                                  *)
(***************************************************************************)
VARIABLES
    fxFile,     \* Fix Engine harness: the parsed content of the record file
    fxId,       \* the server_id the engine is called with
    fxPass,     \* how many times fix_definition has been applied
    fxPrev,     \* the file before the latest application
    fxOut,      \* what the latest application returned
    script,     \* which script is running
    pc,         \* its position
    git,        \* the repository (see above)
    origin,     \* refs/remotes/origin/claude/add-*: branch -> tree
    branches,   \* the list of branches the script iterates over
    bi,         \* index of the branch being processed
    results,    \* the results list of the script
    loc,        \* locals of the branch iteration in progress
    main_files, \* rename_files.py, fix_ids.py: the record paths of main
    run_no,     \* which run of the script this is
    moved,      \* the renames this run has carried out: [branch, path]
    prev_moved  \* the renames the runs before it carried out

fxVars == <<fxFile, fxId, fxPass, fxPrev, fxOut>>

runVars == <<script, pc, git, origin, branches, bi, results, loc,
             main_files, run_no, moved, prev_moved>>

\* What fix_branches.py never touches.
canonVars == <<main_files, run_no, moved, prev_moved>>

vars == <<fxFile, fxId, fxPass, fxPrev, fxOut,
          script, pc, git, origin, branches, bi, results, loc,
          main_files, run_no, moved, prev_moved>>

NoOut == [raised |-> FALSE, written |-> FALSE, data |-> EmptyDict, fixes |-> <<>>]

\* The Fix Engine harness at rest.
FxIdle ==
    /\ fxFile = EmptyDict
    /\ fxId = <<>>
    /\ fxPass = 0
    /\ fxPrev = EmptyDict
    /\ fxOut = NoOut

NoLoc == [fix_branch |-> <<>>, cmds |-> {}]

\* No script running.
RunIdle ==
    /\ script = "none"
    /\ pc = "none"
    /\ git = [head |-> MAIN, rebasing |-> FALSE, tree |-> (MAIN :> EmptyDict),
              idx |-> EmptyDict, wt |-> EmptyDict, remote |-> EmptyDict]
    /\ origin = EmptyDict
    /\ branches = <<>>
    /\ bi = 0
    /\ results = <<>>
    /\ loc = NoLoc
    /\ main_files = {}
    /\ run_no = 0
    /\ moved = {}
    /\ prev_moved = {}

(***************************************************************************)
(* The Fix Engine applied repeatedly to one record file.                   *)
(***************************************************************************)
FxInputEntries ==
    { [id |-> "path", type |-> "text"],
      [id |-> "path", type |-> "dir"],
      [id |-> "path"],
      [type |-> "dir"],
      [type |-> "url"] }

FxInputLists ==
    UNION { [1..n -> FxInputEntries] : n \in 0..MaxInputs }

FxTransports ==
    { [type |-> "http", url |-> "https://example.com/mcp"] }
    \cup { [type |-> "stdio", command |-> "npx", args |-> <<"wrong-package">>] }
    \cup { [type |-> "stdio", command |-> "npx", args |-> <<"pagerduty-mcp">>,
            metadata |-> [inputs |-> l]] : l \in FxInputLists }

FxLinks ==
    { EmptyDict,
      [repository |-> "https://github.com/stytchauth"],
      [repository |-> STYTCH_REPO],
      [repository |-> "https://github.com/PagerDuty/pagerduty-mcp-server",
       documentation |-> "https://example.com/docs"] }

FxIds ==
    { <<"com.pagerduty-mcp">>, STYTCH_ID, <<"community.postgresql">>,
      <<"com.hubspot-mcp">>, <<"com.example-mcp">>, <<>> }

FxRecords ==
    { [id |-> i, icon |-> c, transport |-> t] : i \in FxIds \ {<<>>},
        c \in {MCP_ORG_ICON, ICON_FIXES[<<"community.postgresql">>]}, t \in FxTransports }
    \cup { [id |-> i, links |-> l, transport |-> t] : i \in FxIds \ {<<>>},
        l \in FxLinks, t \in FxTransports }
    \cup { [id |-> i, links |-> l] : i \in FxIds \ {<<>>}, l \in FxLinks }

InitFix ==
    /\ fxFile \in FxRecords
    /\ fxId \in FxIds
    /\ fxPass = 0
    /\ fxPrev = fxFile
    /\ fxOut = NoOut
    /\ RunIdle

\* One call of fix_definition on the file as it now is.
ApplyFix ==
    /\ fxPass < NumPasses
    /\ LET r == fix_definition(fxFile, fxId)
       IN  /\ fxOut' = r
           /\ fxPrev' = fxFile
           /\ fxFile' = IF r.written THEN r.data ELSE fxFile
    /\ fxPass' = fxPass + 1
    /\ UNCHANGED fxId
    /\ UNCHANGED runVars

NextFix == ApplyFix

SpecFix == InitFix /\ [][NextFix]_vars

\* C4: the second application of fix_definition leaves the record file
\* unchanged and returns an empty fix list, for every record and identifier.
C4_FixIdempotent ==
    fxPass = 2 => /\ ~fxOut.raised
                  /\ fxOut.fixes = <<>>
                  /\ fxFile = fxPrev

(***************************************************************************)
(* fix_branches.py: the branch pipeline.                                   *)
(***************************************************************************)
\* s.replace(sub, ''): every occurrence of sub removed, left to right.
RECURSIVE RemoveAll(_, _)
RemoveAll(s, sub) ==
    IF Len(s) < Len(sub) THEN s
    ELSE IF SubSeq(s, 1, Len(sub)) = sub
         THEN RemoveAll(SubSeq(s, Len(sub) + 1, Len(s)), sub)
         ELSE <<Head(s)>> \o RemoveAll(Tail(s), sub)

\* Line 127.
short_name(branch_name) ==
    RemoveAll(RemoveAll(RemoveAll(branch_name, <<"claude/add-">>),
                        <<"-mcp", "-nYwV7">>),
              <<"-nYwV7">>)

\* Line 128.
fix_branch_of(branch_name) == <<"fix/">> \o short_name(branch_name)

\* The orders in which the backend may list the names of S.
Listings(S) ==
    { l \in [1..Cardinality(S) -> S] : Range(l) = S }

\* get_remote_branches (lines 119-123): the refs in the order for-each-ref
\* lists them (listing), or [] when the command fails or prints nothing.
get_remote_branches(listing, ok) ==
    LET r == run(IF ok THEN 0 ELSE 1, listing, STDERR, TRUE)
    IN  IF r.none \/ r.out = <<>> THEN <<>> ELSE r.out

\* A record file: ok says whether json.load accepts it.
File(d) == [ok |-> TRUE, data |-> d]

BadFile == [ok |-> FALSE, data |-> EmptyDict]

\* Lines 154-165: the loop over diff_files.  st is the working
\* tree and all_fixes so far.
RECURSIVE fix_files(_, _, _)
fix_files(diff_files, k, st) ==
    IF k > Len(diff_files) THEN st
    ELSE LET f == diff_files[k]
         IN  IF f \in DOMAIN st.wt /\ EndsWith(f, ".json")
             THEN IF ~st.wt[f].ok
                  THEN fix_files(diff_files, k + 1,
                         [st EXCEPT !.all_fixes = Append(@, <<f, <<"PARSE_ERROR">>>>)])
                  ELSE LET data == st.wt[f].data
                           r == fix_definition(data, Get(data, "id", <<>>))
                       IN  IF r.raised
                           THEN fix_files(diff_files, k + 1,
                                  [st EXCEPT !.all_fixes =
                                      Append(@, <<f, <<"PARSE_ERROR">>>>)])
                           ELSE fix_files(diff_files, k + 1,
                                  [wt |-> IF r.written
                                          THEN Put(st.wt, f, File(r.data))
                                          ELSE st.wt,
                                   all_fixes |-> st.all_fixes \o
                                       [j \in 1..Len(r.fixes) |-> <<f, r.fixes[j]>>]])
             ELSE fix_files(diff_files, k + 1, st)

\* The result appended by the main loop (line 210), and the next iteration.
Return(result, g) ==
    /\ results' = Append(results, result)
    /\ git' = g
    /\ bi' = bi + 1
    /\ pc' = "branch"

\* Lines 198-206: checkout main (exit status ignored), list the branches.
FB_Main ==
    /\ script = "fix_branches" /\ pc = "main"
    /\ \E ok1, ok2 \in BOOLEAN, listing \in Listings(DOMAIN origin) :
         /\ git' = git_checkout(git, MAIN, ok1).g
         /\ branches' = get_remote_branches(listing, ok2)
    /\ bi' = 1
    /\ pc' = "branch"
    /\ UNCHANGED <<script, origin, results, loc>>
    /\ UNCHANGED fxVars
    /\ UNCHANGED canonVars

\* process_branch, lines 127-134: delete the fix branch, create it anew.
\* env_ok notes that the environment failed neither of the two commands.
FB_Checkout ==
    /\ script = "fix_branches" /\ pc = "branch" /\ bi <= Len(branches)
    /\ LET branch_name == branches[bi]
           fix_branch == fix_branch_of(branch_name)
       IN  \E ok1, ok2 \in BOOLEAN :
             LET d == git_branch_D(git, fix_branch, ok1)
                 c == git_checkout_b(d.g, fix_branch, origin[branch_name], ok2)
                 r == run(c.rc, <<>>, STDERR, TRUE)
             IN  /\ loc' = [fix_branch |-> fix_branch,
                            cmds |-> {"branch -D", "checkout -b"},
                            env_ok |-> ok1 /\ ok2]
                 /\ IF r.none
                    THEN Return([branch |-> branch_name, status |-> "ERROR",
                                 error |-> r.err], c.g)
                    ELSE /\ git' = c.g
                         /\ pc' = "checked_out"
                         /\ UNCHANGED <<results, bi>>
    /\ UNCHANGED <<script, origin, branches>>
    /\ UNCHANGED fxVars
    /\ UNCHANGED canonVars

\* Lines 136-142: rebase; on failure abort, go back to main, delete the
\* fix branch (exit statuses ignored).
FB_Rebase ==
    /\ script = "fix_branches" /\ pc = "checked_out"
    /\ \E outcome \in {"ok", "conflict", "refused"}, ok1, ok2, ok3 \in BOOLEAN :
         LET rb == git_rebase_main(git, outcome)
             r  == run(rb.rc, <<>>, STDERR, TRUE)
             a  == git_rebase_abort(rb.g, ok1)
             c  == git_checkout(a.g, MAIN, ok2)
             d  == git_branch_D(c.g, loc.fix_branch, ok3)
         IN  IF r.none
             THEN /\ loc' = [loc EXCEPT !.cmds = @ \cup
                               {"rebase", "rebase --abort", "checkout main", "branch -D"}]
                  /\ Return([branch |-> branches[bi], status |-> "REBASE_CONFLICT",
                             error |-> r.err], d.g)
             ELSE /\ loc' = [loc EXCEPT !.cmds = @ \cup {"rebase"}]
                  /\ git' = rb.g
                  /\ pc' = "rebased"
                  /\ UNCHANGED <<results, bi>>
    /\ UNCHANGED <<script, origin, branches>>
    /\ UNCHANGED fxVars
    /\ UNCHANGED canonVars

\* Lines 144-151: the record files that differ from main.  diff_rc notes
\* the exit status of the diff when the branch ends here.
FB_Diff ==
    /\ script = "fix_branches" /\ pc = "rebased"
    /\ \E ok1, ok2, ok3 \in BOOLEAN :
         LET df == git_diff_main(git, ok1)
             r  == run(df.rc, df.out, STDERR, TRUE)
             c  == git_checkout(git, MAIN, ok2)
             d  == git_branch_D(c.g, loc.fix_branch, ok3)
         IN  IF r.none \/ r.out = <<>>
             THEN /\ loc' = [fix_branch |-> loc.fix_branch,
                             cmds |-> loc.cmds \cup
                               {"diff", "checkout main", "branch -D"},
                             diff_rc |-> df.rc]
                  /\ Return([branch |-> branches[bi], status |-> "NO_CHANGES",
                             error |-> <<"No server files differ from main">>], d.g)
             ELSE /\ loc' = [fix_branch |-> loc.fix_branch,
                             cmds |-> loc.cmds \cup {"diff"},
                             diff_files |-> r.out]
                  /\ pc' = "diffed"
                  /\ UNCHANGED <<git, results, bi>>
    /\ UNCHANGED <<script, origin, branches>>
    /\ UNCHANGED fxVars
    /\ UNCHANGED canonVars

\* Lines 153-165: the Fix Engine on every changed record file.  modified
\* notes whether the content of some file was changed.
FB_Fix ==
    /\ script = "fix_branches" /\ pc = "diffed"
    /\ LET st == fix_files(loc.diff_files, 1, [wt |-> git.wt, all_fixes |-> <<>>])
       IN  /\ git' = [git EXCEPT !.wt = st.wt]
           /\ loc' = [fix_branch |-> loc.fix_branch, cmds |-> loc.cmds,
                      diff_files |-> loc.diff_files, all_fixes |-> st.all_fixes,
                      modified |-> st.wt # git.wt, committed |-> FALSE]
    /\ pc' = "fixed"
    /\ UNCHANGED <<script, origin, branches, bi, results>>
    /\ UNCHANGED fxVars
    /\ UNCHANGED canonVars

\* Lines 167-172: stage and commit when all_fixes is non-empty (exit
\* statuses ignored; committed notes whether both commands succeeded).
FB_Commit ==
    /\ script = "fix_branches" /\ pc = "fixed"
    /\ IF loc.all_fixes # <<>>
       THEN \E ok1, ok2 \in BOOLEAN :
              LET a == git_add_A(git, ok1)
                  c == git_commit(a.g, ok2)
              IN  /\ git' = c.g
                  /\ loc' = [loc EXCEPT !.cmds = @ \cup {"add -A", "commit"},
                                        !.committed = a.rc = 0 /\ c.rc = 0]
       ELSE UNCHANGED <<git, loc>>
    /\ pc' = "committed"
    /\ UNCHANGED <<script, origin, branches, bi, results>>
    /\ UNCHANGED fxVars
    /\ UNCHANGED canonVars

\* Lines 174-179: force-push the fix branch and build the result.
FB_Push ==
    /\ script = "fix_branches" /\ pc = "committed"
    /\ \E ok \in BOOLEAN, diag \in PushDiagnostics :
         LET p == git_push(git, loc.fix_branch, ok)
             r == run(p.rc, <<>>, diag, TRUE)
         IN  /\ git' = p.g
             /\ loc' = [fix_branch |-> loc.fix_branch,
                        cmds |-> loc.cmds \cup {"push"},
                        diff_files |-> loc.diff_files,
                        all_fixes |-> loc.all_fixes,
                        modified |-> loc.modified,
                        committed |-> loc.committed,
                        push_rc |-> p.rc,
                        push_err |-> diag,
                        result |->
                          IF r.none /\ Contains(Lower(r.err), ERROR_WORD)
                          THEN [branch |-> branches[bi], fix_branch |-> loc.fix_branch,
                                status |-> "PUSH_ERROR", error |-> r.err,
                                fixes |-> loc.all_fixes]
                          ELSE [branch |-> branches[bi], fix_branch |-> loc.fix_branch,
                                status |-> "PUSHED", fixes |-> loc.all_fixes,
                                files |-> loc.diff_files]]
    /\ pc' = "pushed"
    /\ UNCHANGED <<script, origin, branches, bi, results>>
    /\ UNCHANGED fxVars
    /\ UNCHANGED canonVars

\* Lines 181-184: back to main (exit status ignored), return the result.
FB_Return ==
    /\ script = "fix_branches" /\ pc = "pushed"
    /\ \E ok \in BOOLEAN :
         Return(loc.result, git_checkout(git, MAIN, ok).g)
    /\ loc' = [loc EXCEPT !.cmds = @ \cup {"checkout main"}]
    /\ UNCHANGED <<script, origin, branches>>
    /\ UNCHANGED fxVars
    /\ UNCHANGED canonVars

\* Lines 216-222: every branch processed, the summary is printed.
FB_Summary ==
    /\ script = "fix_branches" /\ pc = "branch" /\ bi > Len(branches)
    /\ pc' = "summary"
    /\ UNCHANGED <<script, git, origin, branches, bi, results, loc>>
    /\ UNCHANGED fxVars
    /\ UNCHANGED canonVars

\* The run is killed inside process_branch: after one of its steps, or
\* between a rebase that stopped on a conflict (line 137) and its rollback.
FB_Interrupt ==
    /\ script = "fix_branches" /\ run_no < NumRuns
    /\ \/ /\ pc \in {"checked_out", "rebased", "diffed", "fixed", "committed", "pushed"}
          /\ UNCHANGED git
       \/ /\ pc = "checked_out"
          /\ git_rebase_main(git, "conflict").g # git
          /\ git' = git_rebase_main(git, "conflict").g
    /\ pc' = "interrupted"
    /\ UNCHANGED <<script, origin, branches, bi, results, loc>>
    /\ UNCHANGED fxVars
    /\ UNCHANGED canonVars

\* The operator starts fix_branches.py again on the repository the killed
\* run left.
FB_Rerun ==
    /\ script = "fix_branches" /\ pc = "interrupted"
    /\ run_no < NumRuns
    /\ run_no' = run_no + 1
    /\ pc' = "main"
    /\ branches' = <<>>
    /\ bi' = 0
    /\ results' = <<>>
    /\ loc' = NoLoc
    /\ UNCHANGED <<script, git, origin, main_files, moved, prev_moved>>
    /\ UNCHANGED fxVars

NextFB ==
    \/ FB_Main
    \/ FB_Checkout
    \/ FB_Rebase
    \/ FB_Diff
    \/ FB_Fix
    \/ FB_Commit
    \/ FB_Push
    \/ FB_Return
    \/ FB_Summary

(***************************************************************************)
(* The repositories fix_branches.py is run on.                             *)
(***************************************************************************)
Path(stem) == <<"servers/">> \o stem \o <<".json">>

Inputs(l) == [type |-> "stdio", command |-> "npx", metadata |-> [inputs |-> l]]

\* Record files a contributor may have written.
RecClean ==
    File([id |-> <<"com.example-mcp">>, name |-> <<"Example">>,
          transport |-> Inputs(<< [id |-> "path", type |-> "text"] >>)])

RecBadType ==
    File([id |-> <<"com.example-mcp">>, name |-> <<"Example">>,
          transport |-> Inputs(<< [id |-> "path", type |-> "dir"] >>)])

RecNoInputId ==
    File([id |-> <<"com.example-mcp">>, name |-> <<"Example">>,
          transport |-> Inputs(<< [type |-> "dir"] >>)])

RecPagerduty ==
    File([id |-> <<"com.pagerduty-mcp">>, name |-> <<"PagerDuty">>,
          links |-> [repository |-> REPO_FIXES[<<"com.pagerduty-mcp">>]],
          transport |-> [type |-> "stdio", command |-> "uvx",
                         args |-> <<"pagerduty-mcp">>]])

RecRemote ==
    File([id |-> <<"com.remote-mcp">>, name |-> <<"Remote">>,
          transport |-> [type |-> "http", url |-> "https://example.com/mcp"]])

FBFiles == {RecClean, RecBadType, RecNoInputId, RecPagerduty, BadFile}

FBMainTree == ( Path(<<"com.remote-mcp">>) :> RecRemote )

FBPaths == { Path(<<"com.example-mcp">>), Path(<<"com.pagerduty-mcp">>) }

\* The trees a contributed branch may have, replayed onto main: main's
\* files and the branch's own.
FBTrees ==
    { FBMainTree @@ t : t \in UNION { [P -> FBFiles] : P \in SUBSET FBPaths } }

SrcBranches ==
    { <<"claude/add-", "jira", "-nYwV7">>,
      <<"claude/add-", "pagerduty", "-mcp", "-nYwV7">> }

\* How many files the branches of o add to the tree base.
RECURSIVE AddedIn(_, _, _)
AddedIn(o, base, bs) ==
    IF bs = {} THEN 0
    ELSE LET b == CHOOSE x \in bs : TRUE
         IN  Cardinality(DOMAIN o[b] \ DOMAIN base) + AddedIn(o, base, bs \ {b})

Added(o, base) == AddedIn(o, base, DOMAIN o)

InitFB ==
    /\ script = "fix_branches"
    /\ pc = "main"
    /\ git = [head |-> MAIN, rebasing |-> FALSE, tree |-> (MAIN :> FBMainTree),
              idx |-> FBMainTree, wt |-> FBMainTree, remote |-> EmptyDict]
    /\ origin \in { o \in [SrcBranches -> FBTrees] : Added(o, FBMainTree) <= MaxAdded }
    /\ branches = <<>>
    /\ bi = 0
    /\ results = <<>>
    /\ loc = NoLoc
    /\ main_files = {}
    /\ run_no = 1
    /\ moved = {}
    /\ prev_moved = {}
    /\ FxIdle

SpecFB == InitFB /\ [][NextFB]_vars

InitFBRerun ==
    /\ InitFB
    /\ Added(origin, FBMainTree) <= MaxAddedRerun

\* Names a contributed branch may have: with and without -mcp before the
\* session suffix.
SrcNames ==
    { <<"claude/add-", "jira", "-nYwV7">>,
      <<"claude/add-", "jira", "-mcp", "-nYwV7">>,
      <<"claude/add-", "pagerduty", "-nYwV7">>,
      <<"claude/add-", "pagerduty", "-mcp", "-nYwV7">> }

\* The trees of such a branch: main's files and one record file.
NameTrees ==
    { FBMainTree @@ (p :> f) : p \in FBPaths, f \in {RecClean, RecBadType} }

\* fix_branches.py on any two distinct source branches.
InitFBNames ==
    /\ script = "fix_branches"
    /\ pc = "main"
    /\ git = [head |-> MAIN, rebasing |-> FALSE, tree |-> (MAIN :> FBMainTree),
              idx |-> FBMainTree, wt |-> FBMainTree, remote |-> EmptyDict]
    /\ \E D \in { X \in SUBSET SrcNames : Cardinality(X) = 2 } :
         origin \in [D -> NameTrees]
    /\ branches = <<>>
    /\ bi = 0
    /\ results = <<>>
    /\ loc = NoLoc
    /\ main_files = {}
    /\ run_no = 1
    /\ moved = {}
    /\ prev_moved = {}
    /\ FxIdle

SpecFBNames == InitFBNames /\ [][NextFB]_vars

\* fix_branches.py killed inside a branch and started again.
SpecFBRerun == InitFBRerun /\ [][NextFB \/ FB_Interrupt \/ FB_Rerun]_vars

Last(s) == s[Len(s)]

\* The result of the branch that was processed last, once it is returned.
Returned(status) ==
    /\ script = "fix_branches" /\ pc = "branch"
    /\ results # <<>>
    /\ Last(results).status = status

\* C2: when the rebase fails the branch ends in REBASE_CONFLICT with the
\* working tree on trunk, the local fix branch gone, no rebase in progress
\* and no tracked file modified.
C2_RebaseRollback ==
    Returned("REBASE_CONFLICT") =>
        /\ git.head = MAIN
        /\ loc.fix_branch \notin DOMAIN git.tree
        /\ ~git.rebasing
        /\ Changed(git) = {}

\* transport.metadata.inputs of a parsed record.
InputsOf(data) ==
    Get(Get(Get(data, "transport", EmptyDict), "metadata", EmptyDict), "inputs", <<>>)

\* C5: once process_branch has run the Fix Engine over the changed files,
\* every input of every changed, parseable record file on disk has a type
\* of the enumeration.
C5_InputTypesValid ==
    (script = "fix_branches" /\ pc = "fixed") =>
        \A f \in Range(loc.diff_files) :
            (f \in DOMAIN git.wt /\ EndsWith(f, ".json") /\ git.wt[f].ok) =>
                \A i \in DOMAIN InputsOf(git.wt[f].data) :
                    Get(InputsOf(git.wt[f].data)[i], "type", NONE) \in VALID_INPUT_TYPES

\* C7: a branch with no record file differing from trunk that reaches the
\* diff ends in NO_CHANGES with no stage, commit or push attempted, its
\* local fix branch deleted and trunk checked out.
C7_NoChanges ==
    ( /\ script = "fix_branches" /\ pc = "branch" /\ results # <<>>
      /\ "diff" \in loc.cmds
      /\ origin[Last(results).branch] = FBMainTree ) =>
        /\ Last(results).status = "NO_CHANGES"
        /\ loc.cmds \cap {"add -A", "commit", "push"} = {}
        /\ loc.fix_branch \notin DOMAIN git.tree
        /\ git.head = MAIN

\* C8: a failed push yields PUSH_ERROR with the diagnostic, and PUSHED is
\* produced only by a push that succeeded.
C8_PushError ==
    (script = "fix_branches" /\ pc = "pushed") =>
        /\ loc.push_rc # 0 =>
              /\ loc.result.status = "PUSH_ERROR"
              /\ Get(loc.result, "error", <<>>) = loc.push_err
        /\ loc.result.status = "PUSHED" => loc.push_rc = 0

(***************************************************************************)
(* rename_files.py: transport-suffix canonicalization.                     *)
(***************************************************************************)
Json(stem) == stem \o <<".json">>

HTTP_ONLY_FILES ==
    { Json(<<"com.asana-mcp">>), Json(<<"com.clerk-mcp">>),
      Json(<<"com.cloudflare-observability">>), Json(<<"com.figma-mcp">>),
      Json(<<"com.honeycomb-mcp">>), Json(<<"io.intercom-mcp">>),
      Json(<<"io.sanity-mcp">>), Json(<<"com.stytch-mcp">>),
      Json(<<"com.vercel-mcp">>), Json(<<"town.val-mcp">>),
      Json(<<"com.apify-mcp", "-http">>), Json(<<"com.linear-mcp", "-http">>),
      Json(<<"com.square-mcp", "-http">>), Json(<<"com.vercel-mcp", "-http">>),
      Json(<<"com.mongodb-mcp", "-npx">>), Json(<<"com.mongodb-mcp", "-docker">>) }

\* Line 92: the suffixes a basename may already end in.
KNOWN_SUFFIXES == {"-npx", "-uvx", "-docker", "-http", "-cli"}

\* f'-{suffix}' as a token.
Dash ==
    ( "npx" :> "-npx" ) @@ ( "uvx" :> "-uvx" ) @@ ( "docker" :> "-docker" ) @@
    ( "cli" :> "-cli" ) @@ ( "http" :> "-http" ) @@ ( "node" :> "-node" )

\* Lines 36-45.
get_tool_suffix(transport) ==
    IF Get(transport, "type", NONE) = "http" THEN "http"
    ELSE LET cmd == Get(transport, "command", "")
         IN  IF cmd \in {"npx", "uvx", "docker"} THEN cmd
             ELSE IF cmd = "snyk" THEN "cli"
             ELSE IF cmd # "" THEN cmd ELSE NONE

\* Lines 121-132.
new_name_of(old_name, suffix) ==
    IF suffix = "npx" THEN old_name \o <<" (npx)">>
    ELSE IF suffix = "uvx" THEN old_name \o <<" (uvx)">>
    ELSE IF suffix = "docker" THEN old_name \o <<" (Docker)">>
    ELSE IF suffix = "cli" THEN old_name \o <<" (CLI)">>
    ELSE old_name

\* os.path.basename
RECURSIVE Basename(_)
Basename(path) ==
    IF path # <<>> /\ Head(path) = "servers/" THEN Basename(Tail(path)) ELSE path

\* Lines 59 and 70: the .json files of a listing that main does not have.
new_files_of(all_files, mf) ==
    SelectSeq(all_files, LAMBDA f : f \notin mf /\ EndsWith(f, ".json"))

\* git branch --list 'fix/*'
LocalFixBranches(g) == { b \in DOMAIN g.tree : Head(b) = "fix/" }

\* Line 111 inverted: the http suffix is skipped only for the listed files.
http_skip_listed_only(suffix, basename) ==
    suffix = "http" /\ basename \in HTTP_ONLY_FILES

\* Line 111: an http record outside the exclusion list gets no suffix.
http_skip(suffix, basename) ==
    suffix = "http" /\ basename \notin HTTP_ONLY_FILES

\* Lines 84-149 for one file f.  The outcome says what the iteration did:
\* "skip" (a continue before anything is written), "raise" (an exception
\* leaves the script), "moved" or "mv failed" (the file was rewritten, and
\* git mv succeeded or not).
rename_file(g, f, ok) ==
    LET basename == Basename(f)
        name_no_ext == RemoveAll(basename, <<".json">>)
        skip == [outcome |-> "skip", g |-> g]
    IN  IF basename \in HTTP_ONLY_FILES THEN skip
        ELSE IF \E sfx \in KNOWN_SUFFIXES : EndsWith(name_no_ext, sfx) THEN skip
        ELSE IF f \notin DOMAIN g.wt \/ ~g.wt[f].ok THEN skip
        ELSE LET defn == g.wt[f].data
                 transport == Get(defn, "transport", EmptyDict)
                 suffix == get_tool_suffix(transport)
             IN  IF suffix = NONE THEN skip
                 ELSE IF http_skip(suffix, basename) THEN skip
                 ELSE IF "id" \notin DOMAIN defn THEN [outcome |-> "raise", g |-> g]
                 ELSE LET new_basename == name_no_ext \o <<Dash[suffix]>> \o <<".json">>
                          new_path == <<"servers/">> \o new_basename
                          new_id == defn["id"] \o <<Dash[suffix]>>
                          old_name == Get(defn, "name", <<>>)
                          new_name == new_name_of(old_name, suffix)
                          written == [g EXCEPT !.wt = Put(g.wt, f,
                                        File(Put(Put(defn, "id", new_id), "name", new_name)))]
                          mv == git_mv(written, f, new_path, ok)
                      IN  [outcome |-> IF mv.rc = 0 THEN "moved" ELSE "mv failed",
                           g |-> mv.g,
                           move |-> [f |-> f, new_path |-> new_path,
                                     old_id |-> defn["id"], new_id |-> new_id,
                                     old_name |-> old_name, new_name |-> new_name,
                                     command |-> Get(transport, "command", ""),
                                     type |-> Get(transport, "type", NONE),
                                     rc |-> mv.rc],
                           rename |-> <<basename, new_basename, new_id>>]

\* Lines 50-59: main's record files and the fix branches, sorted (line 61).
RF_Main ==
    /\ script = "rename_files" /\ pc = "main"
    /\ \E ok1, ok2 \in BOOLEAN :
         /\ main_files' = Range(git_ls_tree(git, MAIN, ok1).out)
         /\ branches' = IF ok2 THEN Sorted(LocalFixBranches(git)) ELSE <<>>
    /\ bi' = 1
    /\ results' = <<>>
    /\ pc' = "branch"
    /\ UNCHANGED <<script, git, origin, loc, run_no, moved, prev_moved>>
    /\ UNCHANGED fxVars

\* The next iteration of the loop over branches (a continue, or its end).
NextBranch ==
    /\ bi' = bi + 1
    /\ pc' = "branch"

\* Lines 61-82: the new files of the branch; check the branch out.
RF_Begin ==
    /\ script = "rename_files" /\ pc = "branch" /\ bi <= Len(branches)
    /\ \E ok1, ok2 \in BOOLEAN :
         LET branch == branches[bi]
             ls == git_ls_tree(git, branch, ok1)
             new_files == new_files_of(ls.out, main_files)
             co == git_checkout(git, branch, ok2)
         IN  IF ls.rc # 0 \/ new_files = <<>>
             THEN NextBranch /\ UNCHANGED <<git, loc>>
             ELSE IF co.rc # 0
             THEN NextBranch /\ git' = co.g /\ UNCHANGED loc
             ELSE /\ git' = co.g
                  /\ loc' = [branch |-> branch, new_files |-> new_files, fi |-> 1,
                             changed |-> FALSE, renames |-> <<>>, moves |-> <<>>]
                  /\ pc' = "files"
                  /\ UNCHANGED bi
    /\ UNCHANGED <<script, origin, branches, results, main_files,
                   run_no, moved, prev_moved>>
    /\ UNCHANGED fxVars

\* Lines 84-149: one iteration of the loop over new_files.
RF_File ==
    /\ script = "rename_files" /\ pc = "files" /\ loc.fi <= Len(loc.new_files)
    /\ \E ok \in BOOLEAN :
         LET r == rename_file(git, loc.new_files[loc.fi], ok)
         IN  /\ git' = r.g
             /\ pc' = IF r.outcome = "raise" THEN "crashed" ELSE "files"
             /\ loc' = IF r.outcome \in {"skip", "raise"}
                       THEN [loc EXCEPT !.fi = @ + 1]
                       ELSE [loc EXCEPT !.fi = @ + 1,
                                        !.moves = Append(@, r.move),
                                        !.changed = @ \/ r.outcome = "moved",
                                        !.renames = IF r.outcome = "moved"
                                                    THEN Append(@, r.rename) ELSE @]
             /\ moved' = IF r.outcome = "moved"
                         THEN moved \cup {[branch |-> loc.branch, path |-> r.move.new_path]}
                         ELSE moved
    /\ UNCHANGED <<script, origin, branches, bi, results, main_files,
                   run_no, prev_moved>>
    /\ UNCHANGED fxVars

\* Lines 151-176: stage, commit and push when a file was renamed.
RF_Commit ==
    /\ script = "rename_files" /\ pc = "files" /\ loc.fi > Len(loc.new_files)
    /\ IF loc.changed
       THEN \E ok1, ok2, ok3 \in BOOLEAN :
              LET a == git_add_A(git, ok1)
                  c == git_commit(a.g, ok2)
                  p == git_push(c.g, loc.branch, ok3)
              IN  IF c.rc # 0
                  THEN git' = c.g /\ UNCHANGED results
                  ELSE /\ git' = p.g
                       /\ results' = IF p.rc # 0 THEN results
                                     ELSE results \o
                                          [j \in 1..Len(loc.renames) |->
                                             <<loc.branch, loc.renames[j][1],
                                               loc.renames[j][2]>>]
       ELSE UNCHANGED <<git, results>>
    /\ NextBranch
    /\ UNCHANGED <<script, origin, branches, loc, main_files,
                   run_no, moved, prev_moved>>
    /\ UNCHANGED fxVars

\* Lines 178-182: after the last branch, switch back to main.
RF_End ==
    /\ script = "rename_files" /\ pc = "branch" /\ bi > Len(branches)
    /\ \E ok \in BOOLEAN : git' = git_checkout(git, MAIN, ok).g
    /\ pc' = "summary"
    /\ UNCHANGED <<script, origin, branches, bi, results, loc, main_files,
                   run_no, moved, prev_moved>>
    /\ UNCHANGED fxVars

NextRF ==
    \/ RF_Main
    \/ RF_Begin
    \/ RF_File
    \/ RF_Commit
    \/ RF_End

(***************************************************************************)
(* fix_ids.py: identifier-domain canonicalization.                         *)
(***************************************************************************)
COMMUNITY_REMAP ==
    ( <<"community.postgresql", "-uvx">> :> <<"crystaldba.postgres-mcp", "-uvx">> ) @@
    ( <<"community.airtable", "-npx">> :> <<"domdomegg.airtable-mcp", "-npx">> ) @@
    ( <<"community.axiom", "-npx">> :> <<"thetabird.axiom-mcp", "-npx">> ) @@
    ( <<"community.coda", "-npx">> :> <<"orellazri.coda-mcp", "-npx">> ) @@
    ( <<"community.jira", "-npx">> :> <<"aashari.jira-mcp", "-npx">> ) @@
    ( <<"community.1password", "-npx">> :> <<"cakerepository.1password-mcp", "-npx">> )

\* Lines 67 and 82.
remap_key(f) == RemoveAll(Basename(f), <<".json">>)

\* Lines 81-103 for one file f: "skip", "raise" (open, json.load or
\* defn['id'] raises and nothing catches it), or the file is rewritten and
\* git mv run, its exit status ignored.
remap_file(g, f, ok) ==
    LET basename == remap_key(f)
    IN  IF basename \notin DOMAIN COMMUNITY_REMAP THEN [outcome |-> "skip", g |-> g]
        ELSE IF f \notin DOMAIN g.wt \/ ~g.wt[f].ok \/ "id" \notin DOMAIN g.wt[f].data
        THEN [outcome |-> "raise", g |-> g]
        ELSE LET defn == g.wt[f].data
                 new_id == COMMUNITY_REMAP[basename]
                 new_filename == <<"servers/">> \o new_id \o <<".json">>
                 written == [g EXCEPT !.wt = Put(g.wt, f, File(Put(defn, "id", new_id)))]
                 mv == git_mv(written, f, new_filename, ok)
             IN  [outcome |-> IF mv.rc = 0 THEN "moved" ELSE "mv failed",
                  g |-> mv.g,
                  move |-> [f |-> f, new_path |-> new_filename,
                            old_id |-> defn["id"], new_id |-> new_id,
                            old_name |-> Get(defn, "name", <<>>),
                            new_name |-> Get(defn, "name", <<>>),
                            command |-> Get(Get(defn, "transport", EmptyDict), "command", ""),
                            type |-> Get(Get(defn, "transport", EmptyDict), "type", NONE),
                            rc |-> mv.rc],
                  rename |-> <<basename, new_id, defn["id"]>>]

\* Lines 15-23: check_output raises when git fails, which ends the script.
FI_Main ==
    /\ script = "fix_ids" /\ pc = "main"
    /\ \E ok1, ok2 \in BOOLEAN :
         IF ok1 /\ ok2
         THEN /\ main_files' = Range(git_ls_tree(git, MAIN, TRUE).out)
              /\ branches' = Sorted(LocalFixBranches(git))
              /\ pc' = "branch"
         ELSE /\ pc' = "crashed"
              /\ UNCHANGED <<main_files, branches>>
    /\ bi' = 1
    /\ results' = <<>>
    /\ UNCHANGED <<script, git, origin, loc, run_no, moved, prev_moved>>
    /\ UNCHANGED fxVars

\* Lines 50-79: the new files of the branch; check it out when one of them
\* is in the remap table (the exit status of the checkout is ignored).
FI_Begin ==
    /\ script = "fix_ids" /\ pc = "branch" /\ bi <= Len(branches)
    /\ \E ok1, ok2 \in BOOLEAN :
         LET branch == branches[bi]
             ls == git_ls_tree(git, branch, ok1)
             new_files == new_files_of(ls.out, main_files)
             needs_fix == \E i \in 1..Len(new_files) :
                             remap_key(new_files[i]) \in DOMAIN COMMUNITY_REMAP
         IN  IF ls.rc # 0 \/ new_files = <<>> \/ ~needs_fix
             THEN NextBranch /\ UNCHANGED <<git, loc>>
             ELSE /\ git' = git_checkout(git, branch, ok2).g
                  /\ loc' = [branch |-> branch, new_files |-> new_files, fi |-> 1,
                             changed |-> FALSE, renames |-> <<>>, moves |-> <<>>]
                  /\ pc' = "files"
                  /\ UNCHANGED bi
    /\ UNCHANGED <<script, origin, branches, results, main_files,
                   run_no, moved, prev_moved>>
    /\ UNCHANGED fxVars

\* Lines 81-103: one iteration of the loop over new_files.
FI_File ==
    /\ script = "fix_ids" /\ pc = "files" /\ loc.fi <= Len(loc.new_files)
    /\ \E ok \in BOOLEAN :
         LET r == remap_file(git, loc.new_files[loc.fi], ok)
         IN  /\ git' = r.g
             /\ pc' = IF r.outcome = "raise" THEN "crashed" ELSE "files"
             /\ loc' = IF r.outcome \in {"skip", "raise"}
                       THEN [loc EXCEPT !.fi = @ + 1]
                       ELSE [loc EXCEPT !.fi = @ + 1,
                                        !.moves = Append(@, r.move),
                                        !.changed = TRUE,
                                        !.renames = Append(@, r.rename)]
             /\ moved' = IF r.outcome = "moved"
                         THEN moved \cup {[branch |-> loc.branch, path |-> r.move.new_path]}
                         ELSE moved
    /\ UNCHANGED <<script, origin, branches, bi, results, main_files,
                   run_no, prev_moved>>
    /\ UNCHANGED fxVars

\* Lines 105-121: stage, commit, push (exit statuses ignored but for the
\* printed status), and record every rename.
FI_Commit ==
    /\ script = "fix_ids" /\ pc = "files" /\ loc.fi > Len(loc.new_files)
    /\ IF loc.changed
       THEN \E ok1, ok2, ok3 \in BOOLEAN :
              LET a == git_add_A(git, ok1)
                  c == git_commit(a.g, ok2)
                  p == git_push(c.g, loc.branch, ok3)
              IN  /\ git' = p.g
                  /\ results' = results \o
                        [j \in 1..Len(loc.renames) |->
                           <<loc.branch, loc.renames[j][3], loc.renames[j][2]>>]
       ELSE UNCHANGED <<git, results>>
    /\ NextBranch
    /\ UNCHANGED <<script, origin, branches, loc, main_files,
                   run_no, moved, prev_moved>>
    /\ UNCHANGED fxVars

\* Lines 123-124: after the last branch, switch back to main.
FI_End ==
    /\ script = "fix_ids" /\ pc = "branch" /\ bi > Len(branches)
    /\ \E ok \in BOOLEAN : git' = git_checkout(git, MAIN, ok).g
    /\ pc' = "summary"
    /\ UNCHANGED <<script, origin, branches, bi, results, loc, main_files,
                   run_no, moved, prev_moved>>
    /\ UNCHANGED fxVars

NextFI ==
    \/ FI_Main
    \/ FI_Begin
    \/ FI_File
    \/ FI_Commit
    \/ FI_End

\* The operator starts the same canonicalization script again on the
\* repository the finished run left.
Rerun ==
    /\ script \in {"rename_files", "fix_ids"} /\ pc = "summary"
    /\ run_no < NumRuns
    /\ run_no' = run_no + 1
    /\ prev_moved' = prev_moved \cup moved
    /\ moved' = {}
    /\ pc' = "main"
    /\ branches' = <<>>
    /\ bi' = 0
    /\ results' = <<>>
    /\ loc' = NoLoc
    /\ main_files' = {}
    /\ UNCHANGED <<script, git, origin>>
    /\ UNCHANGED fxVars

(***************************************************************************)
(* The repositories the canonicalization scripts are run on: main, and     *)
(* the local fix/* branches with the record files they add.                *)
(***************************************************************************)
Stdio(cmd) == [type |-> "stdio", command |-> cmd]

Rec(id, name, transport) == File([id |-> id, name |-> name, transport |-> transport])

RecHttp(id) ==
    Rec(id, <<"Remote">>, [type |-> "http", url |-> "https://example.com/mcp"])

At1(path, file) == [path |-> path, file |-> file]

\* Record files for rename_files.py.
RFCandidates ==
    { At1(Path(<<"com.example-mcp">>), Rec(<<"com.example-mcp">>, <<"Example">>, Stdio("npx"))),
      At1(Path(<<"com.example-mcp">>), Rec(<<"com.example">>, <<"Example">>, Stdio("npx"))),
      At1(Path(<<"com.example-mcp", "-npx">>),
          Rec(<<"com.example-mcp", "-npx">>, <<"Example", " (npx)">>, Stdio("npx"))),
      At1(Path(<<"com.node-tool">>), Rec(<<"com.node-tool">>, <<"Tool">>, Stdio("node"))),
      At1(Path(<<"com.node-tool">>), BadFile),
      At1(Path(<<"com.node-tool">>),
          Rec(<<"com.node-tool">>, <<"Tool">>, [type |-> "stdio"])),
      At1(Path(<<"com.node-tool">>),
          File([name |-> <<"Tool">>, transport |-> Stdio("npx")])),
      At1(Path(<<"com.snyk-mcp">>), Rec(<<"com.snyk-mcp">>, <<"Snyk">>, Stdio("snyk"))),
      At1(Path(<<"com.snyk-mcp">>), Rec(<<"com.snyk-mcp">>, <<"Snyk">>, Stdio("docker"))),
      At1(Path(<<"com.stytch-mcp">>), RecHttp(<<"com.stytch-mcp">>)),
      At1(Path(<<"com.example">>), RecHttp(<<"com.example">>)),
      At1(Path(<<"com.pagerduty-mcp">>),
          Rec(<<"com.pagerduty-mcp">>, <<"PagerDuty">>, Stdio("uvx"))) }

RFMainTree ==
    ( Path(<<"com.remote-mcp">>) :> RecRemote ) @@
    ( Path(<<"com.pagerduty-mcp", "-uvx">>) :>
        Rec(<<"com.pagerduty-mcp", "-uvx">>, <<"PagerDuty", " (uvx)">>, Stdio("uvx")) )

\* Record files for fix_ids.py.
FICandidates ==
    { At1(Path(<<"community.airtable", "-npx">>),
          Rec(<<"community.airtable", "-npx">>, <<"Airtable", " (npx)">>, Stdio("npx"))),
      At1(Path(<<"community.airtable", "-npx">>),
          Rec(<<"community.airtable">>, <<"Airtable">>, Stdio("npx"))),
      At1(Path(<<"community.airtable", "-npx">>), BadFile),
      At1(Path(<<"community.airtable", "-npx">>),
          File([name |-> <<"Airtable">>, transport |-> Stdio("npx")])),
      At1(Path(<<"community.postgresql", "-uvx">>),
          Rec(<<"community.postgresql", "-uvx">>, <<"Postgres", " (uvx)">>, Stdio("uvx"))),
      At1(Path(<<"domdomegg.airtable-mcp", "-npx">>),
          Rec(<<"domdomegg.airtable-mcp", "-npx">>, <<"Airtable", " (npx)">>, Stdio("npx"))),
      At1(Path(<<"com.example-mcp", "-npx">>),
          Rec(<<"com.example-mcp", "-npx">>, <<"Example", " (npx)">>, Stdio("npx"))) }

FIMainTree ==
    ( Path(<<"com.remote-mcp">>) :> RecRemote ) @@
    ( Path(<<"crystaldba.postgres-mcp", "-uvx">>) :>
        Rec(<<"crystaldba.postgres-mcp", "-uvx">>, <<"Postgres", " (uvx)">>, Stdio("uvx")) )

\* The tree that adds the candidates cs to base.
TreeWith(base, cs) ==
    [p \in DOMAIN base \cup { c.path : c \in cs } |->
        IF p \in DOMAIN base THEN base[p] ELSE (CHOOSE c \in cs : c.path = p).file]

\* The trees a fix branch may have: base and at most MaxAdded candidates
\* at distinct paths.
TreesOver(base, candidates) ==
    { TreeWith(base, cs) :
        cs \in { x \in SUBSET candidates :
                   /\ Cardinality(x) <= MaxAdded
                   /\ \A c, d \in x : c.path = d.path => c = d } }

FixBranches == { fix_branch_of(b) : b \in SrcBranches }

InitCanon(name, base, candidates) ==
    /\ script = name
    /\ pc = "main"
    /\ \E o \in { x \in [FixBranches -> TreesOver(base, candidates)] :
                    Added(x, base) <= MaxAdded } :
         git = [head |-> MAIN, rebasing |-> FALSE, tree |-> (MAIN :> base) @@ o,
                idx |-> base, wt |-> base, remote |-> o]
    /\ origin = EmptyDict
    /\ branches = <<>>
    /\ bi = 0
    /\ results = <<>>
    /\ loc = NoLoc
    /\ main_files = {}
    /\ run_no = 1
    /\ moved = {}
    /\ prev_moved = {}
    /\ FxIdle

InitRF == InitCanon("rename_files", RFMainTree, RFCandidates)

InitFI == InitCanon("fix_ids", FIMainTree, FICandidates)

SpecRF == InitRF /\ [][NextRF]_vars

SpecFI == InitFI /\ [][NextFI]_vars

\* A canonicalization script run NumRuns times in a row.
SpecRerun == (InitRF \/ InitFI) /\ [][NextRF \/ NextFI \/ Rerun]_vars

\* Any one of the three scripts, run once.
Init == InitFB \/ InitRF \/ InitFI

Next == NextFB \/ NextRF \/ NextFI

Spec == Init /\ [][Next]_vars

\* C1: in each of the three scripts, whenever the processing of a branch
\* begins the working tree is checked out on main.
C1_OnTrunkAtBranchStart ==
    (pc = "branch" /\ bi <= Len(branches)) => git.head = MAIN

\* The moves the canonicalization script attempted in the branch it
\* processed last.
Moves == IF "moves" \in DOMAIN loc THEN Range(loc.moves) ELSE {}

\* The id stored in the file at path p of tree t, if there is one.
HasId(t, p, id) ==
    /\ p \in DOMAIN t
    /\ t[p].ok
    /\ "id" \in DOMAIN t[p].data
    /\ t[p].data["id"] = id

\* Tree t holds half of move m: the old file name with the new id, or the
\* new file name with the old id.
Partial(t, m) == HasId(t, m.f, m.new_id) \/ HasId(t, m.new_path, m.old_id)

\* C3: when git mv failed for a record, at the end of that branch neither
\* the working tree, nor the branch's commit, nor what was pushed for it
\* holds the old file name with the new id or the new file name with the
\* old id.
C3_RenameAtomic ==
    (script \in {"rename_files", "fix_ids"} /\ pc = "branch") =>
        \A m \in Moves :
            m.rc # 0 =>
                /\ ~Partial(git.wt, m)
                /\ ~Partial(git.tree[loc.branch], m)
                /\ ~Partial(git.remote[loc.branch], m)

\* C6: the file name of every renamed record, without .json, is the id
\* stored in the file.
C6_FilenameIsId ==
    (script \in {"rename_files", "fix_ids"}) =>
        \A m \in Moves :
            (m.rc = 0 /\ m.new_path \in DOMAIN git.wt) =>
                HasId(git.wt, m.new_path, RemoveAll(Basename(m.new_path), <<".json">>))

\* Line 41 and 43: the launcher commands the suffix rule names.
KNOWN_LAUNCHERS == {"npx", "uvx", "docker", "snyk"}

\* C9: rename_files.py rewrites or moves no stdio record whose launcher
\* command is unknown.
C9_UnknownLauncherUntouched ==
    script = "rename_files" =>
        \A m \in Moves : m.command \in KNOWN_LAUNCHERS

\* C10: a second run of a canonicalization script rewrites or moves no
\* record that the first run renamed.
C10_CanonIdempotent ==
    run_no > 1 =>
        \A m \in Moves :
            [branch |-> loc.branch, path |-> m.f] \notin prev_moved

\* C11: no script stops at a record file that cannot be parsed: the file
\* is skipped or recorded, and the files and branches after it are still
\* processed.
C11_ParseFailureIsPerFile ==
    (pc = "crashed" /\ "new_files" \in DOMAIN loc) =>
        LET f == loc.new_files[loc.fi - 1]
        IN  ~(f \in DOMAIN git.wt /\ ~git.wt[f].ok)

\* The ids of the records of tree t at the paths P.
IdsAt(t, P) ==
    { t[p].data["id"] : p \in { q \in P \cap DOMAIN t :
                                  t[q].ok /\ "id" \in DOMAIN t[q].data } }

\* The ids of the records of main.
TrunkIds == IdsAt(git.tree[MAIN], DOMAIN git.tree[MAIN])

\* The ids of the records tree t adds to main.
AddedIds(t) == IdsAt(t, DOMAIN t \ DOMAIN git.tree[MAIN])

\* C12: while a canonicalization script processes a branch, no record the
\* branch adds has the id of a record of main, in the working tree, in the
\* branch's commit or in what was pushed for it.
C12_NoTrunkIdCollision ==
    (script \in {"rename_files", "fix_ids"} /\ "branch" \in DOMAIN loc) =>
        /\ AddedIds(git.wt) \cap TrunkIds = {}
        /\ AddedIds(git.tree[loc.branch]) \cap TrunkIds = {}
        /\ AddedIds(git.remote[loc.branch]) \cap TrunkIds = {}

\* C13: once a return to main has failed in fix_branches.py (a branch has
\* been returned and the working tree is not on main), the run does nothing
\* more to the repository: no branch is deleted, created, checked out,
\* modified, committed or pushed.
C13_AbortWhenOffTrunk ==
    [][ ( /\ script = "fix_branches" /\ pc = "branch"
          /\ results # <<>>
          /\ git.head # MAIN ) => git' = git ]_vars

\* C14: process_branch stages and commits exactly when the Fix Engine
\* changed the content of a record file, and pushes in either case.
C14_CommitIffModified ==
    /\ (script = "fix_branches" /\ pc = "committed") =>
          ({"add -A", "commit"} \subseteq loc.cmds <=> loc.modified)
    /\ (script = "fix_branches" /\ pc = "pushed") => "push" \in loc.cmds

\* C15: a result PUSHED with the fixes the Fix Engine made, after a push
\* that succeeded, means that stage-all and commit succeeded and that the
\* pushed fix branch holds the files as the Fix Engine left them.
C15_PushedFixesCommitted ==
    ( /\ script = "fix_branches" /\ pc = "pushed"
      /\ loc.modified
      /\ loc.push_rc = 0
      /\ loc.result.status = "PUSHED"
      /\ loc.result.fixes # <<>> ) =>
        /\ loc.committed
        /\ \A f \in Range(loc.diff_files) :
              At(git.remote[loc.fix_branch], f) = At(git.wt, f)

\* A record file whose transport type is http.
IsHttp(file) ==
    file.ok /\ Get(Get(file.data, "transport", EmptyDict), "type", NONE) = "http"

\* C16: rename_files.py rewrites and moves no record whose transport type
\* is http: none is in the log of rewritten files, and every http record
\* among the branch's new files is, in the branch and in its working tree,
\* the file that was pushed for the branch.
C16_HttpNeverRenamed ==
    (script = "rename_files" /\ "new_files" \in DOMAIN loc) =>
        /\ \A m \in Moves : m.type # "http"
        /\ \A f \in Range(loc.new_files) :
              ( /\ f \in DOMAIN git.remote[loc.branch]
                /\ IsHttp(git.remote[loc.branch][f]) ) =>
                  /\ At(git.tree[loc.branch], f) = git.remote[loc.branch][f]
                  /\ git.head = loc.branch => At(git.wt, f) = git.remote[loc.branch][f]

\* C16, its case: rename_files.py has just gone over an http record whose
\* file name is not in HTTP_ONLY_FILES.
C16_HttpUnlistedVisited ==
    /\ script = "rename_files" /\ pc = "files" /\ loc.fi > 1
    /\ git.head = loc.branch
    /\ LET f == loc.new_files[loc.fi - 1]
       IN  /\ f \in DOMAIN git.wt
           /\ IsHttp(git.wt[f])
           /\ Basename(f) \notin HTTP_ONLY_FILES

\* What a rename leaves of a record file: all but its id and name.
Core(file) ==
    [ok |-> file.ok,
     data |-> [k \in DOMAIN file.data \ {"id", "name"} |-> file.data[k]]]

\* Tree u keeps the records of tree t: as many files, each at its path or
\* at a new path that holds it with id and name rewritten.
Kept(t, u) ==
    /\ Cardinality(DOMAIN u) = Cardinality(DOMAIN t)
    /\ \A p \in DOMAIN t \ DOMAIN u :
          \E q \in DOMAIN u \ DOMAIN t : Core(u[q]) = Core(t[p])

C17_WriteIffChanged ==
    fxPass >= 1 =>
        /\ fxOut.written <=> fxOut.fixes # <<>>
        /\ fxOut.written => fxFile # fxPrev

\* s lists its names in ascending order.
IsSorted(s) ==
    \A i, j \in 1..Len(s) : i < j => SeqLess(s[i], s[j])

\* C20: every script goes through its branches in sorted order of branch
\* name, in whatever order the backend listed them.
C20_BranchesSorted ==
    pc \in {"branch", "summary"} => IsSorted(branches)

\* C19: in a run that follows a killed run, process_branch gets past the
\* delete-then-create checkout of a branch whose local fix branch already
\* exists, provided the environment fails neither command and did not fail
\* the checkout of main before it (the tree is on main, or git had to
\* refuse the switch to main).
C19_RerunSelfHeals ==
    [][ ( /\ script = "fix_branches" /\ run_no > 1
          /\ pc = "branch" /\ bi <= Len(branches)
          /\ fix_branch_of(branches[bi]) \in DOMAIN git.tree
          /\ git.head = MAIN \/ ~CanSwitch(git, git.tree[MAIN])
          /\ loc'.env_ok ) => pc' = "checked_out" ]_vars

\* C22: process_branch returns NO_CHANGES only after a diff against main
\* that succeeded; a diff that failed is never reported as NO_CHANGES.
C22_NoChangesOnlyAfterDiff ==
    Returned("NO_CHANGES") => loc.diff_rc = 0

\* C21: two distinct source branches of one run that reach the push never
\* push to the same fix branch.
C21_FixBranchInjective ==
    script = "fix_branches" =>
        \A i, j \in 1..Len(results) :
            ( /\ "fix_branch" \in DOMAIN results[i]
              /\ "fix_branch" \in DOMAIN results[j]
              /\ results[i].branch # results[j].branch ) =>
                results[i].fix_branch # results[j].fix_branch
====
